---------------------------- MODULE Spec2Model ----------------------------
(***************************************************************************)
(* Model of authresults.py: the extraction of the Authentication-Results   *)
(* header of a message into a record of named fields, and the batch driver *)
(* that scans a directory and writes the records to a CSV report.          *)
(*                                                                         *)
(* A Python str is a sequence of one-character strings, '' is <<>>.  A     *)
(* dict is a function from its keys (TLA+ strings) to its values.          *)
(***************************************************************************)
EXTENDS Integers, Sequences, FiniteSets, TLC

VARIABLES
    pc,             \* the statement the program is at
    email_message,  \* extract_auth_results' argument: the values of the
                    \* message's Authentication-Results headers, in order
    auth_results,   \* the dict extract_auth_results last returned
    isdir,          \* os.path.isdir(directory) for the directory typed in
    listing,        \* os.listdir(directory): the files, in discovery order
    idx,            \* position of process_emails' loop in listing
    results,        \* process_emails' list of records
    csvfile,        \* the report file on disk
    stdout          \* the lines printed

vars == <<pc, email_message, auth_results, isdir, listing, idx, results,
          csvfile, stdout>>

-----------------------------------------------------------------------------
(* Bounds of the model *)

\* most fragments a generated header text is concatenated from
MaxClauses == 3

\* most files in the scanned directory
MaxFiles == 2

-----------------------------------------------------------------------------
(* Strings *)

Min(a, b) == IF a < b THEN a ELSE b

pass == <<"p","a","s","s">>

\* str.startswith at a position: lit occurs in s at index pos (1-based)
OccursAt(s, lit, pos) ==
    /\ pos >= 1
    /\ pos + Len(lit) - 1 <= Len(s)
    /\ \A j \in 1..Len(lit) : s[pos + j - 1] = lit[j]

\* filename.endswith(suffix)
EndsWith(s, suffix) == OccursAt(s, suffix, Len(s) - Len(suffix) + 1)

\* c in s
Has(s, c) == \E j \in 1..Len(s) : s[j] = c

\* what Python's str.isspace holds of among the ASCII characters a TLA+
\* string can spell (\v is not one of them)
Whitespace == {" ", "\t", "\n", "\r", "\f"}

\* s.split('@')[-1]: what follows the last '@', the whole of s without one
SplitLast_first(s) ==
    IF Has(s, "@")
    THEN LET p == CHOOSE j \in 1..Len(s) :
                      s[j] = "@" /\ \A i \in 1..(j - 1) : s[i] # "@"
         IN  SubSeq(s, p + 1, Len(s))
    ELSE s

SplitLast(s) ==
    IF Has(s, "@")
    THEN LET p == CHOOSE j \in 1..Len(s) :
                      s[j] = "@" /\ \A i \in (j + 1)..Len(s) : s[i] # "@"
         IN  SubSeq(s, p + 1, Len(s))
    ELSE s

\* s.strip(): without its leading and trailing whitespace
RECURSIVE LStrip(_)
LStrip(s) == IF s # <<>> /\ Head(s) \in Whitespace THEN LStrip(Tail(s)) ELSE s

RECURSIVE RStrip(_)
RStrip(s) ==
    IF s # <<>> /\ s[Len(s)] \in Whitespace
    THEN RStrip(SubSeq(s, 1, Len(s) - 1))
    ELSE s

Strip(s) == RStrip(LStrip(s))

-----------------------------------------------------------------------------
(* Regular expressions, as re matches them.  A pattern is a sequence of    *)
(* atoms: a literal text, or a character class under a greedy quantifier.  *)
(* A quantified atom takes the longest repetition after which the rest of  *)
(* the pattern matches, which is what backtracking from the longest        *)
(* repetition down finds first.                                            *)

Max(a, b) == IF a > b THEN a ELSE b

Least(S) == CHOOSE x \in S : \A y \in S : x <= y

Greatest(S) == CHOOSE x \in S : \A y \in S : x >= y

\* a character class: the characters of set, or all but those when neg
InClass(c, cls) == (c \in cls.set) # cls.neg

\* a literal text
Literal(s) == [lit |-> s, cls |-> [neg |-> FALSE, set |-> {}], min |-> 0,
               many |-> FALSE, cap |-> FALSE]

\* ([^...]+): a capturing group of one or more characters outside excl
Group(excl) == [lit |-> <<>>, cls |-> [neg |-> TRUE, set |-> excl],
                min |-> 1, many |-> TRUE, cap |-> TRUE]

\* .* : any characters but a newline (no DOTALL flag)
DotStar == [lit |-> <<>>, cls |-> [neg |-> TRUE, set |-> {"\n"}], min |-> 0,
            many |-> TRUE, cap |-> FALSE]

\* @? : an optional '@'
OptAt == [lit |-> <<>>, cls |-> [neg |-> FALSE, set |-> {"@"}], min |-> 0,
          many |-> FALSE, cap |-> FALSE]

\* \d+
Digits == [lit |-> <<>>,
           cls |-> [neg |-> FALSE,
                    set |-> {"0","1","2","3","4","5","6","7","8","9"}],
           min |-> 1, many |-> TRUE, cap |-> FALSE]

\* the result of a failed match (re's None)
NoMatch == [ok |-> FALSE, start |-> 0, end |-> 0, groups |-> <<>>]

\* length of the run of characters of cls in s from pos
RunLen(s, pos, cls) ==
    LET stops == {q \in pos..Len(s) : ~InClass(s[q], cls)}
    IN  IF stops = {} THEN Max(Len(s) - pos + 1, 0) ELSE Least(stops) - pos

\* match pat[k..] against s at pos
RECURSIVE MatchAt(_, _, _, _)
MatchAt(pat, k, s, pos) ==
    IF k > Len(pat)
    THEN [ok |-> TRUE, start |-> pos, end |-> pos, groups |-> <<>>]
    ELSE IF pat[k].lit # <<>>
    THEN IF OccursAt(s, pat[k].lit, pos)
         THEN LET m == MatchAt(pat, k + 1, s, pos + Len(pat[k].lit))
              IN  IF m.ok THEN [m EXCEPT !.start = pos] ELSE NoMatch
         ELSE NoMatch
    ELSE LET r    == RunLen(s, pos, pat[k].cls)
             hi   == IF pat[k].many THEN r ELSE Min(r, 1)
             reps == {t \in {<<n, MatchAt(pat, k + 1, s, pos + n)>> :
                                 n \in pat[k].min..hi} : t[2].ok}
         IN  IF reps = {}
             THEN NoMatch
             ELSE LET n == Greatest({t[1] : t \in reps})
                      m == (CHOOSE t \in reps : t[1] = n)[2]
                  IN  [ok |-> TRUE, start |-> pos, end |-> m.end,
                       groups |-> IF pat[k].cap
                                  THEN <<SubSeq(s, pos, pos + n - 1)>>
                                       \o m.groups
                                  ELSE m.groups]

\* re.search(pat, s), scanning from index from: the leftmost match
re_search_from(pat, s, from) ==
    LET found == {m \in {MatchAt(pat, 1, s, p) : p \in from..(Len(s) + 1)} :
                      m.ok}
    IN  IF found = {}
        THEN NoMatch
        ELSE CHOOSE m \in found : \A o \in found : m.start <= o.start

re_search(pat, s) == re_search_from(pat, s, 1)

\* re.finditer(pat, s): the non-overlapping matches, left to right (none of
\* the patterns below matches the empty string, so a match always advances)
RECURSIVE re_finditer_from(_, _, _)
re_finditer_from(pat, s, from) ==
    LET m == re_search_from(pat, s, from)
    IN  IF m.ok THEN <<m>> \o re_finditer_from(pat, s, m.end) ELSE <<>>

re_finditer(pat, s) == re_finditer_from(pat, s, 1)

-----------------------------------------------------------------------------
(* The literal texts of the patterns of extract_auth_results *)

L_header_from == <<"h","e","a","d","e","r",".","f","r","o","m","=">>
L_spf_pass    == <<"s","p","f","=","p","a","s","s"," ","(">>
L_domain_of   == <<"d","o","m","a","i","n"," ","o","f"," ">>
L_dmarc_pass  == <<"d","m","a","r","c","=","p","a","s","s"," ","(","p","=">>
L_sp          == <<" ","s","p","=">>
L_dis         == <<" ","d","i","s","=">>
L_arc_pass    == <<"a","r","c","=","p","a","s","s"," ","(","i","=">>
L_spf         == <<" ","s","p","f","=">>
L_spfdomain   == <<" ","s","p","f","d","o","m","a","i","n","=">>
L_dkim        == <<" ","d","k","i","m","=">>
L_dkdomain    == <<" ","d","k","d","o","m","a","i","n","=">>
L_dmarc       == <<" ","d","m","a","r","c","=">>
L_fromdomain  == <<" ","f","r","o","m","d","o","m","a","i","n","=">>
L_dkim_pass   == <<"d","k","i","m","=","p","a","s","s"," ",
                   "h","e","a","d","e","r",".","i","=">>
L_header_s    == <<" ","h","e","a","d","e","r",".","s","=">>

(* The patterns of extract_auth_results *)

\* r'header\.from=([^ ;]+)'
HeaderFromPattern == <<Literal(L_header_from)>> \o <<Group({" ", ";"})>>

\* r'spf=pass \(.*domain of .*@([^\s;"]+)'
SpfPattern ==
    <<Literal(L_spf_pass)>> \o <<DotStar>> \o <<Literal(L_domain_of)>> \o <<DotStar>>
    \o <<Literal(<<"@">>)>> \o <<Group(Whitespace \cup {";", "\""})>>

\* r'dmarc=pass \(p=([^ ]+)': the pattern cut after its first group
DmarcPattern_prefix == <<Literal(L_dmarc_pass)>> \o <<Group({" "})>>

\* r'dmarc=pass \(p=([^ ]+) sp=([^ ]+) dis=([^ ]+)\)'
DmarcPattern ==
    <<Literal(L_dmarc_pass)>> \o <<Group({" "})>>
    \o <<Literal(L_sp)>> \o <<Group({" "})>>
    \o <<Literal(L_dis)>> \o <<Group({" "})>>
    \o <<Literal(<<")">>)>>

\* r'arc=pass \(i=\d+ spf=([^ ]+) spfdomain=([^ ]+) dkim=([^ ]+)
\*   dkdomain=([^ ]+) dkim=([^ ]+) dkdomain=([^ ]+) dmarc=([^ ]+)
\*   fromdomain=([^ ]+)\)'
ArcPattern ==
    <<Literal(L_arc_pass)>> \o <<Digits>>
    \o <<Literal(L_spf)>> \o <<Group({" "})>>
    \o <<Literal(L_spfdomain)>> \o <<Group({" "})>>
    \o <<Literal(L_dkim)>> \o <<Group({" "})>>
    \o <<Literal(L_dkdomain)>> \o <<Group({" "})>>
    \o <<Literal(L_dkim)>> \o <<Group({" "})>>
    \o <<Literal(L_dkdomain)>> \o <<Group({" "})>>
    \o <<Literal(L_dmarc)>> \o <<Group({" "})>>
    \o <<Literal(L_fromdomain)>> \o <<Group({" "})>>
    \o <<Literal(<<")">>)>>

\* r'dkim=pass header\.i=@?([^ ]+) header\.s=([^ ]+)'
DkimPattern ==
    <<Literal(L_dkim_pass)>> \o <<OptAt>> \o <<Group({" "})>>
    \o <<Literal(L_header_s)>> \o <<Group({" "})>>

-----------------------------------------------------------------------------
(* extract_auth_results *)

\* the 21 columns of the report, in order
fieldnames ==
    << "header.from", "spfdomain",
       "dkim1", "dkdomain1", "header.i1", "header.s1",
       "dkim2", "dkdomain2", "header.i2", "header.s2",
       "dmarc_p", "dmarc_sp", "dmarc_dis",
       "arc_spf", "arc_spfdomain", "arc_dkim1", "arc_dkdomain1",
       "arc_dkim2", "arc_dkdomain2", "arc_dmarc", "arc_fromdomain" >>

FieldSet == {fieldnames[j] : j \in 1..Len(fieldnames)}

\* d[k] = v on a dict: the key is added when d has none
Put(d, k, v) == (k :> v) @@ d

\* the f-string f'{base}{i}'
fstr(base, i) == base \o ToString(i)

\* the dict auth_results starts as, with one field left out
InitialRecord_short == [k \in FieldSet \ {"arc_fromdomain"} |-> <<>>]

\* the dict auth_results starts as: every field the empty string
InitialRecord == [k \in FieldSet |-> <<>>]

\* email_message.get('Authentication-Results'): the first such header's
\* value, None without one
GetAuthHeader(msg) ==
    IF msg = <<>> THEN [none |-> TRUE, value |-> <<>>]
                  ELSE [none |-> FALSE, value |-> msg[1]]

\* header.from, taken from the last match instead of the first
ExtractHeaderFrom_last(d, auth_header) ==
    LET ms == re_finditer(HeaderFromPattern, auth_header)
    IN  Put(d, "header.from",
            IF ms # <<>> THEN ms[Len(ms)].groups[1] ELSE <<>>)

\* Extract header.from
ExtractHeaderFrom(d, auth_header) ==
    LET header_from_match == re_search(HeaderFromPattern, auth_header)
    IN  Put(d, "header.from",
            IF header_from_match.ok THEN header_from_match.groups[1] ELSE <<>>)

\* Extract SPF domain
ExtractSpf(d, auth_header) ==
    LET spf_match == re_search(SpfPattern, auth_header)
    IN  Put(d, "spfdomain",
            IF spf_match.ok THEN Strip(SplitLast(spf_match.groups[1]))
                            ELSE <<>>)

\* DMARC values, dmarc_p stored as soon as the pattern's start matches
ExtractDmarc_partial(d, auth_header) ==
    LET p_match     == re_search(DmarcPattern_prefix, auth_header)
        dmarc_match == re_search(DmarcPattern, auth_header)
        d1 == IF p_match.ok THEN Put(d, "dmarc_p", p_match.groups[1]) ELSE d
    IN  IF dmarc_match.ok
        THEN Put(Put(d1, "dmarc_sp", dmarc_match.groups[2]),
                 "dmarc_dis", dmarc_match.groups[3])
        ELSE d1

\* Extract DMARC values
ExtractDmarc(d, auth_header) ==
    LET dmarc_match == re_search(DmarcPattern, auth_header)
    IN  IF dmarc_match.ok
        THEN Put(Put(Put(d, "dmarc_p", dmarc_match.groups[1]),
                     "dmarc_sp", dmarc_match.groups[2]),
                 "dmarc_dis", dmarc_match.groups[3])
        ELSE d

\* Extract ARC values
ExtractArc(d, auth_header) ==
    LET arc_match == re_search(ArcPattern, auth_header)
        g == arc_match.groups
    IN  IF arc_match.ok
        THEN Put(Put(Put(Put(Put(Put(Put(Put(d,
                 "arc_spf", g[1]), "arc_spfdomain", g[2]),
                 "arc_dkim1", g[3]), "arc_dkdomain1", g[4]),
                 "arc_dkim2", g[5]), "arc_dkdomain2", g[6]),
                 "arc_dmarc", g[7]), "arc_fromdomain", g[8])
        ELSE d

\* the DKIM domain, cut at the first '@' instead of the last
DkimDomain_first(id) == IF Has(id, "@") THEN SplitLast_first(id) ELSE <<>>

\* dkim_domain: the part of the header.i value after its last '@'
DkimDomain(id) == IF Has(id, "@") THEN SplitLast(id) ELSE <<>>

\* the loop body, every match after the first stored in slot 2
DkimStore_capped(d, i, match) ==
    LET j == Min(i, 2)
    IN  Put(Put(Put(Put(d, fstr("dkim", j), pass),
                    fstr("header.i", j), match.groups[1]),
                fstr("header.s", j), match.groups[2]),
            fstr("dkdomain", j), DkimDomain(match.groups[1]))

\* the loop body, header.s left unset
DkimStore_half(d, i, match) ==
    Put(Put(Put(d, fstr("dkim", i), pass),
            fstr("header.i", i), match.groups[1]),
        fstr("dkdomain", i), DkimDomain(match.groups[1]))

\* the body of the loop over dkim_matches: the i-th match is stored under
\* the keys dkim{i}, header.i{i}, header.s{i}, dkdomain{i}
DkimStore(d, i, match) ==
    Put(Put(Put(Put(d, fstr("dkim", i), pass),
                fstr("header.i", i), match.groups[1]),
            fstr("header.s", i), match.groups[2]),
        fstr("dkdomain", i), DkimDomain(match.groups[1]))

\* for i, match in enumerate(dkim_matches, start=i)
RECURSIVE DkimLoop(_, _, _)
DkimLoop(d, dkim_matches, i) ==
    IF dkim_matches = <<>>
    THEN d
    ELSE DkimLoop(DkimStore(d, i, Head(dkim_matches)), Tail(dkim_matches),
                  i + 1)

\* Extract DKIM values with associated headers
ExtractDkim(d, auth_header) ==
    DkimLoop(d, re_finditer(DkimPattern, auth_header), 1)

extract_auth_results(msg) ==
    LET auth_header == GetAuthHeader(msg)
        h  == auth_header.value
        r1 == ExtractHeaderFrom(InitialRecord, h)
        r2 == ExtractSpf(r1, h)
        r3 == ExtractDmarc(r2, h)
        r4 == ExtractArc(r3, h)
    IN  IF ~auth_header.none /\ h # <<>>
        THEN ExtractDkim(r4, h)
        ELSE InitialRecord

-----------------------------------------------------------------------------
(* Header texts: concatenations of at most MaxClauses fragments of one     *)
(* family                                                                  *)

DkimFragments == {
    L_dkim_pass \o <<"@","a">> \o L_header_s \o <<"s"," ">>,
    L_dkim_pass \o <<"u","@","v","@","b">> \o L_header_s \o <<"t"," ">>,
    L_dkim_pass \o <<"c">> \o L_header_s \o <<"r",";">>,
    L_dkim_pass \o <<"@">> \o L_header_s \o <<"q"," ">>,
    L_dkim_pass \o <<"@","d"," ">>,
    Tail(L_header_s) \o <<"w"," ">> }

SpfClause(verdict, addr, rest) ==
    <<"s","p","f","=">> \o verdict \o <<" ","(","g",":"," ">> \o L_domain_of
    \o addr \o rest

SpfFragments == {
    SpfClause(pass, <<"b","@","e",".","o">>,
              <<" ","d","e","s","i","g","n","a","t","e","s"," ","1",")"," ">>),
    SpfClause(pass, <<"\"","q","@","h",".","o","\"">>, <<")"," ">>),
    SpfClause(<<"f","a","i","l">>, <<"b","@","e",".","o">>, <<")"," ">>),
    <<"s","m","t","p",".","m","a","i","l","f","r","o","m","=",
      "m","@","f",".","o",";"," ">>,
    L_dkim_pass \o <<"@","a">> \o L_header_s \o <<"s"," ">>,
    <<"\n">> }

ArcHead ==
    L_arc_pass \o <<"1">> \o L_spf \o <<"a">> \o L_spfdomain \o <<"b">>
    \o L_dkim \o <<"c">> \o L_dkdomain \o <<"d"," ">>

ArcTail ==
    Tail(L_dkim) \o <<"e">> \o L_dkdomain \o <<"f">> \o L_dmarc \o <<"g">>
    \o L_fromdomain \o <<"h",")"," ">>

GroupFragments == {
    L_dmarc_pass \o <<"n">> \o L_sp \o <<"q">> \o L_dis \o <<"r",")"," ">>,
    L_dmarc_pass \o <<"n">> \o L_sp \o <<"q"," ">>,
    Tail(L_dis) \o <<"r",")"," ">>,
    ArcHead \o ArcTail,
    ArcHead,
    ArcTail }

FromFragments == {
    L_header_from,
    <<"a",".","b">>,
    L_header_from \o <<"e",".","f",";"," ">>,
    <<";">>,
    <<" ">>,
    <<"d","k","i","m","=","p","a","s","s">> }

Families == {DkimFragments, SpfFragments, GroupFragments, FromFragments}

RECURSIVE Concat(_)
Concat(ss) == IF ss = <<>> THEN <<>> ELSE Head(ss) \o Concat(Tail(ss))

\* the header texts of the model
HeaderTexts ==
    UNION { { Concat(cs) : cs \in [1..n -> fam] } :
            <<n, fam>> \in (0..MaxClauses) \X Families }

\* the messages of the model: without the header, or with one
Messages == {<<>>} \cup { <<h>> : h \in HeaderTexts }

-----------------------------------------------------------------------------
(* The directory scanned by the batch driver *)

Filenames == { <<"a",".","e","m","l">>, <<"b",".","e","m","l">>,
               <<"c",".","t","x","t">> }

\* the messages the files hold: no header, an unrecognized one, a
\* header.from token, two DKIM clauses, three DKIM clauses
SampleMessages == {
    <<>>,
    << <<"n","o","n","e">> >>,
    << L_header_from \o <<"e",".","f",";"," ">> >>,
    << L_dkim_pass \o <<"@","a">> \o L_header_s \o <<"s"," ">>
       \o L_dkim_pass \o <<"u","@","v","@","b">> \o L_header_s \o <<"t"," ">> >>,
    << L_dkim_pass \o <<"@","a">> \o L_header_s \o <<"s"," ">>
       \o L_dkim_pass \o <<"u","@","v","@","b">> \o L_header_s \o <<"t"," ">>
       \o L_dkim_pass \o <<"c">> \o L_header_s \o <<"r",";">> >> }

Files == [name : Filenames, msg : SampleMessages]

\* the directory listings: at most MaxFiles files, their names distinct
Listings ==
    UNION { { l \in [1..n -> Files] :
                  \A i, j \in 1..n : i # j => l[i].name # l[j].name } :
            n \in 0..MaxFiles }

NoFile == [exists |-> FALSE, header |-> <<>>, rows |-> <<>>]

NoRecord == [k \in {} |-> <<>>]

-----------------------------------------------------------------------------
(* The extractor on its own: one call of extract_auth_results *)

InitExtract ==
    /\ pc = "call"
    /\ email_message \in Messages
    /\ auth_results = NoRecord
    /\ isdir = FALSE
    /\ listing = <<>>
    /\ idx = 0
    /\ results = <<>>
    /\ csvfile = NoFile
    /\ stdout = <<>>

Extract ==
    /\ pc = "call"
    /\ auth_results' = extract_auth_results(email_message)
    /\ pc' = "returned"
    /\ UNCHANGED <<email_message, isdir, listing, idx, results, csvfile,
                   stdout>>

NextExtract == Extract

SpecExtract == InitExtract /\ [][NextExtract]_vars

-----------------------------------------------------------------------------
(* The batch driver: the main block, process_emails and save_to_csv *)

Init ==
    /\ pc = "prompt"
    /\ email_message = <<>>
    /\ auth_results = NoRecord
    /\ \/ isdir = FALSE /\ listing = <<>>
       \/ isdir = TRUE /\ listing \in Listings
    /\ idx = 0
    /\ results = <<>>
    /\ csvfile = NoFile
    /\ stdout = <<>>

\* the main block without its directory check
Prompt_nocheck ==
    /\ pc = "prompt"
    /\ pc' = "process_emails"
    /\ UNCHANGED <<email_message, auth_results, isdir, listing, idx, results,
                   csvfile, stdout>>

\* directory = input(...); if not os.path.isdir(directory): print(...)
Prompt ==
    /\ pc = "prompt"
    /\ IF ~isdir
       THEN /\ stdout' = Append(stdout, "Invalid directory")
            /\ pc' = "done"
       ELSE /\ stdout' = stdout
            /\ pc' = "process_emails"
    /\ UNCHANGED <<email_message, auth_results, isdir, listing, idx, results,
                   csvfile>>

\* any(auth_results.values())
AnyValue(d) == \E k \in DOMAIN d : d[k] # <<>>

\* one iteration of process_emails' loop over os.listdir(directory)
ProcessFile ==
    /\ pc = "process_emails"
    /\ idx < Len(listing)
    /\ idx' = idx + 1
    /\ LET file == listing[idx + 1]
           rec  == extract_auth_results(file.msg)
       IN  IF EndsWith(file.name, <<".","e","m","l">>)
           THEN /\ email_message' = file.msg
                /\ auth_results' = rec
                /\ results' = IF AnyValue(rec) THEN Append(results, rec)
                                               ELSE results
           ELSE UNCHANGED <<email_message, auth_results, results>>
    /\ UNCHANGED <<pc, isdir, listing, csvfile, stdout>>

\* csv.DictWriter._dict_to_list with extrasaction='raise': the keys of the
\* row that are no column
WrongFields(rowdict) == (DOMAIN rowdict) \ FieldSet

\* csv.DictWriter._dict_to_list: the row's values in column order, the
\* empty string for a column the row lacks
DictToList(rowdict) ==
    [j \in 1..Len(fieldnames) |->
        IF fieldnames[j] \in DOMAIN rowdict THEN rowdict[fieldnames[j]]
                                            ELSE <<>>]

\* process_emails returns and save_to_csv runs: the file is opened for
\* writing, the header row written, then the rows one by one until one
\* has a key that is no column, where writerows raises ValueError
SaveToCsv ==
    /\ pc = "process_emails"
    /\ idx = Len(listing)
    /\ LET bad  == {i \in 1..Len(results) : WrongFields(results[i]) # {}}
           last == IF bad = {} THEN Len(results) ELSE Least(bad) - 1
       IN  /\ csvfile' = [exists |-> TRUE, header |-> fieldnames,
                          rows |-> [i \in 1..last |-> DictToList(results[i])]]
           /\ pc' = IF bad = {} THEN "saved" ELSE "raised"
    /\ UNCHANGED <<email_message, auth_results, isdir, listing, idx, results,
                   stdout>>

\* print(f'Results saved to ...')
PrintSaved ==
    /\ pc = "saved"
    /\ stdout' = Append(stdout, "Results saved to")
    /\ pc' = "done"
    /\ UNCHANGED <<email_message, auth_results, isdir, listing, idx, results,
                   csvfile>>

Next == Prompt \/ ProcessFile \/ SaveToCsv \/ PrintSaved

Spec == Init /\ [][Next]_vars

-----------------------------------------------------------------------------
(* What the claims speak of, stated on the header text itself *)

\* extract_auth_results has returned on a header it looks into
Returned == pc = "returned"

Looked == Returned /\ email_message # <<>> /\ email_message[1] # <<>>

\* the header text handed to the patterns
Text == email_message[1]

\* lit occurs somewhere in s
Contains(s, lit) == \E p \in 1..Len(s) : OccursAt(s, lit, p)

\* the positions at which lit occurs in s, at from or later
Places(s, lit, from) == {p \in from..Len(s) : OccursAt(s, lit, p)}

\* the maximal run of characters outside excl that starts at from
Span(s, from, excl) ==
    IF from > Len(s)
    THEN <<>>
    ELSE LET e == CHOOSE e \in (from - 1)..Len(s) :
                      /\ \A j \in from..e : s[j] \notin excl
                      /\ e = Len(s) \/ s[e + 1] \in excl
         IN  SubSeq(s, from, e)

\* what follows the last '@' of a string that has one
AfterLastAt(s) == SubSeq(s, Greatest({j \in 1..Len(s) : s[j] = "@"}) + 1, Len(s))

AllEmpty(d, keys) == \A k \in keys : d[k] = <<>>

AllFilled(d, keys) == \A k \in keys : d[k] # <<>>

DkimFields == {"dkim1", "dkdomain1", "header.i1", "header.s1",
               "dkim2", "dkdomain2", "header.i2", "header.s2"}

DmarcFields == {"dmarc_p", "dmarc_sp", "dmarc_dis"}

ArcFields == {"arc_spf", "arc_spfdomain", "arc_dkim1", "arc_dkdomain1",
              "arc_dkim2", "arc_dkdomain2", "arc_dmarc", "arc_fromdomain"}

\* an occurrence of `dkim=pass header.i=<optional @><ID> header.s=<SEL>`
\* at position p of s: <ID> and <SEL> are the maximal runs without a space,
\* the '@' before <ID> left out when a character of <ID> follows it
DkimOcc(s, p) ==
    LET q      == p + Len(L_dkim_pass)
        idFrom == IF /\ q + 1 <= Len(s)
                     /\ s[q] = "@"
                     /\ s[q + 1] # " "
                  THEN q + 1 ELSE q
        id     == Span(s, idFrom, {" "})
        r      == idFrom + Len(id)
        sel    == Span(s, r + Len(L_header_s), {" "})
    IN  [ok  |-> /\ OccursAt(s, L_dkim_pass, p)
                 /\ id # <<>>
                 /\ OccursAt(s, L_header_s, r)
                 /\ sel # <<>>,
         id  |-> id,
         sel |-> sel,
         end |-> r + Len(L_header_s) + Len(sel)]

\* where occurrences start at from or later
DkimStarts(s, from) == {p \in from..Len(s) : DkimOcc(s, p).ok}

\* the first, second and third occurrence, left to right, not overlapping
HasOcc1(s) == DkimStarts(s, 1) # {}
Occ1(s)    == DkimOcc(s, Least(DkimStarts(s, 1)))
HasOcc2(s) == HasOcc1(s) /\ DkimStarts(s, Occ1(s).end) # {}
Occ2(s)    == DkimOcc(s, Least(DkimStarts(s, Occ1(s).end)))
HasOcc3(s) == HasOcc2(s) /\ DkimStarts(s, Occ2(s).end) # {}
Occ3(s)    == DkimOcc(s, Least(DkimStarts(s, Occ2(s).end)))

-----------------------------------------------------------------------------
(* C1 *)

\* C1: on a header with three or more DKIM occurrences the record returned
\* has exactly the 21 named fields as its keys (no dkim3, header.i3,
\* header.s3 or dkdomain3) and holds the first two occurrences only.
C1_OnlyTwoDkimSlots ==
    (Looked /\ HasOcc3(Text)) =>
        /\ DOMAIN auth_results = FieldSet
        /\ auth_results["header.i1"] = Occ1(Text).id
        /\ auth_results["header.i2"] = Occ2(Text).id

-----------------------------------------------------------------------------
(* C2 *)

\* some sub-pattern of the extractor is found in the text
Recognized(s) ==
    \/ re_search(HeaderFromPattern, s).ok
    \/ re_search(SpfPattern, s).ok
    \/ re_search(DmarcPattern, s).ok
    \/ re_search(ArcPattern, s).ok
    \/ re_search(DkimPattern, s).ok

-----------------------------------------------------------------------------
(* C3 *)

\* the rows the report is to have: one per message file, in the order of
\* the listing, whose record has a non-empty field
RECURSIVE ReportRows(_)
ReportRows(l) ==
    IF l = <<>>
    THEN <<>>
    ELSE LET rec == extract_auth_results(Head(l).msg)
         IN  (IF EndsWith(Head(l).name, <<".","e","m","l">>) /\ AnyValue(rec)
              THEN << [j \in 1..Len(fieldnames) |-> rec[fieldnames[j]]] >>
              ELSE <<>>)
             \o ReportRows(Tail(l))

\* C3: a run over a directory of message files completes, and the report
\* then has the header row and exactly one row of the 21 columns for each
\* message with a non-empty record, in the order of discovery.
C3_ReportRowPerMessage ==
    (isdir /\ pc \in {"done", "raised"}) =>
        /\ pc = "done"
        /\ csvfile.exists
        /\ csvfile.header = fieldnames
        /\ csvfile.rows = ReportRows(listing)
        /\ \A i \in 1..Len(csvfile.rows) : Len(csvfile.rows[i]) = 21

-----------------------------------------------------------------------------
(* C4 *)

\* C4: the first occurrence of the DKIM clause fills slot 1 and the second
\* slot 2, with 'pass', the occurrence's <ID> and its <SEL>; a later
\* occurrence changes neither.
C4_DkimSlotsInOrder ==
    Looked =>
        /\ HasOcc1(Text) =>
              /\ auth_results["dkim1"] = pass
              /\ auth_results["header.i1"] = Occ1(Text).id
              /\ auth_results["header.s1"] = Occ1(Text).sel
        /\ HasOcc2(Text) =>
              /\ auth_results["dkim2"] = pass
              /\ auth_results["header.i2"] = Occ2(Text).id
              /\ auth_results["header.s2"] = Occ2(Text).sel

\* three occurrences, the third unlike the second, and slot 2 holds the
\* second
C4_Witness ==
    /\ Looked
    /\ HasOcc3(Text)
    /\ Occ3(Text).id # Occ2(Text).id
    /\ Occ2(Text).id # Occ1(Text).id
    /\ auth_results["header.i1"] = Occ1(Text).id
    /\ auth_results["header.i2"] = Occ2(Text).id
    /\ auth_results["header.s2"] = Occ2(Text).sel

-----------------------------------------------------------------------------
(* C5 *)

\* C5: dkdomainN is what follows the last '@' of header.iN, and empty when
\* header.iN has no '@', for N = 1 and N = 2.
C5_DkdomainFromHeaderI ==
    Returned =>
        \A N \in {"1", "2"} :
            LET id == auth_results["header.i" \o N]
            IN  auth_results["dkdomain" \o N] =
                    IF Has(id, "@") THEN AfterLastAt(id) ELSE <<>>

\* one slot with two '@' in header.i and its last part as the domain, the
\* other with no '@' and no domain
C5_Witness ==
    /\ Looked
    /\ \E N, M \in {"1", "2"} :
          /\ Cardinality({j \in 1..Len(auth_results["header.i" \o N]) :
                             auth_results["header.i" \o N][j] = "@"}) = 2
          /\ auth_results["dkdomain" \o N] = <<"b">>
          /\ auth_results["header.i" \o M] = <<"c">>
          /\ auth_results["dkdomain" \o M] = <<>>

-----------------------------------------------------------------------------
(* C6 *)

\* the SPF clause `spf=pass (<host>: domain of <local>@<D> ...`: its start,
\* the `domain of ` after it, the '@' of the address named there
SpfAt(s)      == Least(Places(s, L_spf_pass, 1))
DomainOfAt(s) == Least(Places(s, L_domain_of, SpfAt(s) + Len(L_spf_pass)))
AddrAt(s)     == Least(Places(s, <<"@">>, DomainOfAt(s) + Len(L_domain_of)))

HasSpfClause(s) ==
    /\ Places(s, L_spf_pass, 1) # {}
    /\ Places(s, L_domain_of, SpfAt(s) + Len(L_spf_pass)) # {}
    /\ Places(s, <<"@">>, DomainOfAt(s) + Len(L_domain_of)) # {}
    /\ \A j \in SpfAt(s)..AddrAt(s) : s[j] \notin {"\n", ")"}
    /\ \A j \in (DomainOfAt(s) + Len(L_domain_of))..AddrAt(s) :
           s[j] \notin {" ", "\""}
    /\ Span(s, AddrAt(s) + 1, Whitespace \cup {";", "\""}) # <<>>

SpfD(s) == Span(s, AddrAt(s) + 1, Whitespace \cup {";", "\""})

\* C6: a header with the clause `spf=pass (<host>: domain of <local>@<D>
\* designates ...)` gives spfdomain = <D>, whatever precedes or follows the
\* clause; a header with no `spf=pass (` gives an empty spfdomain.
C6_SpfDomainOfAddress ==
    Looked =>
        /\ HasSpfClause(Text) => auth_results["spfdomain"] = SpfD(Text)
        /\ ~Contains(Text, L_spf_pass) => auth_results["spfdomain"] = <<>>

-----------------------------------------------------------------------------
(* C7 *)

\* C7: dmarc_p, dmarc_sp, dmarc_dis are all empty or all non-empty, and
\* when non-empty the clause `dmarc=pass (p=.. sp=.. dis=..)` they spell is
\* in the header; likewise the eight arc_ fields and the ARC clause.
C7_GroupsAtomic ==
    Returned =>
        LET d == auth_results
        IN  /\ AllEmpty(d, DmarcFields) \/ AllFilled(d, DmarcFields)
            /\ AllFilled(d, DmarcFields) =>
                  /\ Looked
                  /\ Contains(Text,
                        L_dmarc_pass \o d["dmarc_p"] \o L_sp \o d["dmarc_sp"]
                        \o L_dis \o d["dmarc_dis"] \o <<")">>)
            /\ AllEmpty(d, ArcFields) \/ AllFilled(d, ArcFields)
            /\ AllFilled(d, ArcFields) =>
                  /\ Looked
                  /\ Contains(Text,
                        L_spf \o d["arc_spf"]
                        \o L_spfdomain \o d["arc_spfdomain"]
                        \o L_dkim \o d["arc_dkim1"]
                        \o L_dkdomain \o d["arc_dkdomain1"]
                        \o L_dkim \o d["arc_dkim2"]
                        \o L_dkdomain \o d["arc_dkdomain2"]
                        \o L_dmarc \o d["arc_dmarc"]
                        \o L_fromdomain \o d["arc_fromdomain"] \o <<")">>)

\* a DMARC clause cut short beside a whole ARC clause: no DMARC field, all
\* ARC fields
C7_Witness ==
    /\ Looked
    /\ Contains(Text, L_dmarc_pass)
    /\ AllEmpty(auth_results, DmarcFields)
    /\ Contains(Text, L_arc_pass)
    /\ AllFilled(auth_results, ArcFields)

-----------------------------------------------------------------------------
(* C8 *)

\* the text is `header.from=<V>;` and nothing else
OnlyHeaderFrom(s) ==
    /\ OccursAt(s, L_header_from, 1)
    /\ Len(s) >= Len(L_header_from) + 2
    /\ s[Len(s)] = ";"
    /\ \A j \in (Len(L_header_from) + 1)..(Len(s) - 1) : s[j] \notin {" ", ";"}

\* then the record is header.from = <V> and nothing else
OnlyHeaderFromRecord(s, d) ==
    /\ DOMAIN d = FieldSet
    /\ d["header.from"] = SubSeq(s, Len(L_header_from) + 1, Len(s) - 1)
    /\ AllEmpty(d, FieldSet \ {"header.from"})

\* the places of `header.from=` followed by a character of a value
ValuedPlaces(s) ==
    {p \in Places(s, L_header_from, 1) :
        Span(s, p + Len(L_header_from), {" ", ";"}) # <<>>}

\* C8 as stated: the text `header.from=<V>;` alone gives header.from = <V>
\* and 20 empty fields; in general header.from is the maximal run without
\* space and semicolon after the first `header.from=` of the text.
C8_AfterFirstHeaderFrom ==
    Looked =>
        /\ OnlyHeaderFrom(Text) => OnlyHeaderFromRecord(Text, auth_results)
        /\ auth_results["header.from"] =
              IF Contains(Text, L_header_from)
              THEN Span(Text,
                        Least(Places(Text, L_header_from, 1))
                            + Len(L_header_from),
                        {" ", ";"})
              ELSE <<>>

\* C8: the text `header.from=<V>;` alone gives header.from = <V> and 20
\* empty fields; in general header.from is the maximal run without space
\* and semicolon after the first `header.from=` that such a character
\* follows, and empty when there is none.
C8_HeaderFromVerbatim ==
    Looked =>
        /\ OnlyHeaderFrom(Text) => OnlyHeaderFromRecord(Text, auth_results)
        /\ auth_results["header.from"] =
              IF ValuedPlaces(Text) # {}
              THEN Span(Text, Least(ValuedPlaces(Text)) + Len(L_header_from),
                        {" ", ";"})
              ELSE <<>>

\* the text `header.from=a.b;` and its record
C8_Witness ==
    /\ Looked
    /\ OnlyHeaderFrom(Text)
    /\ Text = L_header_from \o <<"a",".","b",";">>
    /\ auth_results["header.from"] = <<"a",".","b">>
    /\ AllEmpty(auth_results, FieldSet \ {"header.from"})

-----------------------------------------------------------------------------
(* C9 *)

\* C9: when the directory typed in is no directory the program prints the
\* error and ends, no file looked at, no record made, no report written;
\* a report exists only once the directory check has passed.
C9_InvalidDirectoryWritesNothing ==
    /\ ~isdir =>
          /\ pc \in {"prompt", "done"}
          /\ idx = 0
          /\ results = <<>>
          /\ csvfile = NoFile
          /\ pc = "done" => stdout = <<"Invalid directory">>
    /\ csvfile.exists => isdir /\ pc \in {"saved", "raised", "done"}

\* the run on an invalid directory has ended
C9_Witness ==
    /\ ~isdir
    /\ pc = "done"
    /\ stdout = <<"Invalid directory">>
    /\ csvfile = NoFile

-----------------------------------------------------------------------------
(* C10 *)

\* C10: slot 2 is filled only when slot 1 is; dkimN is empty or 'pass';
\* dkimN is 'pass' exactly when header.iN and header.sN are both non-empty.
C10_DkimSlotsConsistent ==
    Returned =>
        /\ auth_results["dkim2"] # <<>> => auth_results["dkim1"] # <<>>
        /\ \A N \in {"1", "2"} :
              /\ auth_results["dkim" \o N] \in {<<>>, pass}
              /\ auth_results["dkim" \o N] = pass <=>
                    /\ auth_results["header.i" \o N] # <<>>
                    /\ auth_results["header.s" \o N] # <<>>

\* a whole DKIM clause followed by one cut short: slot 1 filled, slot 2
\* wholly empty
C10_Witness ==
    /\ Looked
    /\ Cardinality(Places(Text, L_dkim_pass, 1)) = 2
    /\ auth_results["dkim1"] = pass
    /\ auth_results["header.i1"] # <<>>
    /\ auth_results["header.s1"] # <<>>
    /\ auth_results["dkim2"] = <<>>
    /\ auth_results["header.i2"] = <<>>
    /\ auth_results["header.s2"] = <<>>

=============================================================================
